---- MODULE Spec2Model ----
(***************************************************************************)
(* CrowdGuard detection-to-alert pipeline: the voice announcement queue    *)
(* (hook useVoiceAlert), the alert dispatcher (Index.handleAlert) and the  *)
(* per-frame pipeline (WebcamDetector.detect).                             *)
(*                                                                         *)
(* Text is a sequence of Unicode code points.  Time is Date.now() in       *)
(* milliseconds.  Fractions (scores, ratios) are kept exact by integer     *)
(* cross-multiplication.                                                   *)
(***************************************************************************)
EXTENDS Integers, Sequences, FiniteSets, TLC

(***************************************************************************)
(* Bounds of the model.                                                    *)
(***************************************************************************)
\* Date.now() at construction: any value far above every cooldown.
StartTime == 100000
\* Texts accepted by speak in one behaviour.
MaxAccepted == 3

\* Candidate alerts submitted in one behaviour of the dispatcher alone.
MaxSubmitted == 3
\* Entries accepted into the alert log in one behaviour of a burst of alerts.
MaxAlerts == 52

\* Frames processed in one behaviour of the frame pipeline.
MaxFrames == 5
\* Frames processed in one behaviour of the tracker under a crowd.
MaxCrowdFrames == 8
\* Frames processed in one behaviour of the tracker under a falling person.
MaxFallFrames == 7
\* Frames processed in one behaviour of the classifier under probe detections.
MaxProbeFrames == 2
\* Frames processed in one behaviour of the tracker under moving persons.
MaxMatchFrames == 3
\* Frames processed in one behaviour of the tracker under long pauses.
MaxEvictFrames == 4
\* Pauses of about a minute in one behaviour of the tracker.
MaxPauses == 2
\* Frames processed in one behaviour of the behaviour analysis under groups.
MaxSceneFrames == 2
\* Frames processed in one behaviour of the frame loop.
MaxLoopFrames == 2
\* Frames processed in one behaviour of the pipeline under a writing consumer.
MaxSnapFrames == 3
\* Animation-frame requests issued in one behaviour of the frame loop.
MaxRequests == 3
\* The time between two animation frames, in ms.
FrameStep == 16

\* The instants at which the model lets something happen, as offsets from
\* StartTime: they straddle the shortest cooldown (5999 < 6000), and stay
\* inside the longer ones.
ClockOffsets == {0, 5999, 6000}

(***************************************************************************)
(* Program constants.                                                      *)
(***************************************************************************)
KeyLen == 40
DefaultCooldown == 8000
CooldownDanger == 6000
CooldownWarning == 10000
CooldownInfo == 15000
AlertCap == 50
FrameWidth == 640
FrameHeight == 480
PersonScore == 40
ChildScore == 60
AdultScore == 50
AnimalScore == 45
HistoryCap == 30
MatchDist == 150
EvictAfter == 60000
RushStep == 3
CrowdLimit == 8
EmojiLow == 128512
EmojiHigh == 131071

(***************************************************************************)
(* Text: messages as code-point sequences.                                 *)
(***************************************************************************)
\* "FALL DETECTED — Person may have fallen down!"
MsgFall ==
    << 70, 65, 76, 76, 32, 68, 69, 84, 69, 67, 84, 69, 68, 32, 8212, 32, 80,
       101, 114, 115, 111, 110, 32, 109, 97, 121, 32, 104, 97, 118, 101, 32,
       102, 97, 108, 108, 101, 110, 32, 100, 111, 119, 110, 33 >>
\* "PHYSICAL ALTERCATION — Possible fight detected!"
MsgAltercation ==
    << 80, 72, 89, 83, 73, 67, 65, 76, 32, 65, 76, 84, 69, 82, 67, 65, 84, 73,
       79, 78, 32, 8212, 32, 80, 111, 115, 115, 105, 98, 108, 101, 32, 102,
       105, 103, 104, 116, 32, 100, 101, 116, 101, 99, 116, 101, 100, 33 >>
\* "SUDDEN RUSH — Rapid crowd increase detected!"
MsgRush ==
    << 83, 85, 68, 68, 69, 78, 32, 82, 85, 83, 72, 32, 8212, 32, 82, 97, 112,
       105, 100, 32, 99, 114, 111, 119, 100, 32, 105, 110, 99, 114, 101, 97,
       115, 101, 32, 100, 101, 116, 101, 99, 116, 101, 100, 33 >>
\* "Overcrowding alert! " and " people detected!"
OvercrowdPrefix ==
    << 79, 118, 101, 114, 99, 114, 111, 119, 100, 105, 110, 103, 32, 97, 108,
       101, 114, 116, 33, 32 >>
OvercrowdSuffix ==
    << 32, 112, 101, 111, 112, 108, 101, 32, 100, 101, 116, 101, 99, 116, 101,
       100, 33 >>
\* "Animal detected: "
AnimalPrefix ==
    << 65, 110, 105, 109, 97, 108, 32, 100, 101, 116, 101, 99, 116, 101, 100,
       58, 32 >>
\* "Fire!", "FIRE" and, behind U+1F600 (grinning face) and a space, "Fire"
MsgFire == << 70, 105, 114, 101, 33 >>
MsgFireCaps == << 70, 73, 82, 69 >>
MsgEmoji == << 128512, 32, 70, 105, 114, 101 >>

\* Number.prototype.toString of a count, in decimal digits.
RECURSIVE Digits(_)
Digits(n) == IF n < 10 THEN << 48 + n >> ELSE Digits(n \div 10) \o << 48 + (n % 10) >>

MsgOvercrowd(n) == OvercrowdPrefix \o Digits(n) \o OvercrowdSuffix

IsLetterOrSpace(c) == c = 32 \/ c \in 65..90 \/ c \in 97..122
ToLowerCase(c) == IF c \in 65..90 THEN c + 32 ELSE c
IsEmojiRange(c) == c \in EmojiLow..EmojiHigh
IsWhiteSpace(c) == c \in {9, 10, 11, 12, 13, 32, 160}

\* String.prototype.slice(0, n)
Slice0(s, n) == IF Len(s) <= n THEN s ELSE SubSeq(s, 1, n)

\* String.prototype.trim
RECURSIVE TrimStart(_)
TrimStart(s) ==
    IF s # << >> /\ IsWhiteSpace(Head(s)) THEN TrimStart(Tail(s)) ELSE s
RECURSIVE TrimEnd(_)
TrimEnd(s) ==
    IF s # << >> /\ IsWhiteSpace(s[Len(s)]) THEN TrimEnd(SubSeq(s, 1, Len(s) - 1)) ELSE s
Trim(s) == TrimEnd(TrimStart(s))

\* replace(/[^a-zA-Z ]/g, ""): the letters and spaces of s, in order.
RECURSIVE KeepLetters(_)
KeepLetters(s) ==
    IF s = << >> THEN << >>
    ELSE (IF IsLetterOrSpace(Head(s)) THEN << Head(s) >> ELSE << >>) \o KeepLetters(Tail(s))

\* replace(/[\u{1F600}-\u{1FFFF}]/gu, ""): s without the code points of that range.
RECURSIVE StripEmoji(_)
StripEmoji(s) ==
    IF s = << >> THEN << >>
    ELSE (IF IsEmojiRange(Head(s)) THEN << >> ELSE << Head(s) >>) \o StripEmoji(Tail(s))

\* message.replace(/[^a-zA-Z ]/g, "").toLowerCase().slice(0, 40)
DedupKey(message) ==
    LET letters == KeepLetters(message)
    IN  Slice0([i \in 1..Len(letters) |-> ToLowerCase(letters[i])], KeyLen)

\* message.replace(/[\u{1F600}-\u{1FFFF}]/gu, "").trim()
CleanText(message) == Trim(StripEmoji(message))

(***************************************************************************)
(* State.                                                                  *)
(***************************************************************************)
VARIABLES
    \* useVoiceAlert
    hasSynth,        \* synthRef.current is set ("speechSynthesis" in window)
    queue,           \* queueRef.current: pending entries, head first
    isSpeakingRef,   \* isSpeakingRef.current
    lastSpoken,      \* lastSpokenRef.current: dedup key -> time of acceptance
    voiceEnabled,    \* React state voiceEnabled
    isSpeaking,      \* React state isSpeaking
    \* the speech engine (window.speechSynthesis)
    engine,          \* utterances handed over and not finished, head spoken
    lateCallbacks,   \* utterances removed by cancel() whose event is not delivered yet
    \* WebcamDetector
    statsRef,        \* statsRef.current: the occupancy counters
    prevCountRef,    \* prevCountRef.current: the person count of the last processed frame
    personHistoryRef, \* personHistoryRef.current: key -> [positions, firstSeen]
    prevBboxRef,     \* prevBboxRef.current: the boxes of the last processed frame
    sharedDetections, \* statsRef.current.detections and the detections of the last
                     \* snapshot are one and the same array object
    modelLoaded,     \* React state modelLoaded (modelRef.current is set with it)
    cameraActive,    \* React state cameraActive
    cameraStarting,  \* a startCamera call is awaiting the camera
    videoReady,      \* the video element plays a frame (readyState >= 2, not paused)
    detectingRef,    \* detectingRef.current
    animFrameRef,    \* animFrameRef.current: the id of the last request, 0 for none
    requests,        \* the animation-frame requests not fired and not cancelled:
                     \* [id, seen], seen the voiceEnabled its detect callback captured
    inflight,        \* the detect invocations awaiting the model: [id, seen]
    nextId,          \* the id the next requestAnimationFrame returns
    \* Index
    stats,           \* React state stats: the last snapshot handed to onStatsUpdate
    alerts,          \* React state alerts: the rolling alert log, most recent last
    toastAlert,      \* React state toastAlert
    isRunning,       \* React state isRunning
    \* environment
    now,             \* Date.now()
    closures,        \* values of voiceEnabled captured by speak callbacks still callable
    \* history
    nAccepted,       \* number of texts speak has enqueued so far
    handed,          \* ordinals of the texts passed to synth.speak, in call order
    dropped,         \* ordinals of the texts a cancel removed from the queue
    acceptedAt,      \* dedup key -> time at which a text with that key was last enqueued
    waited,          \* ordinals of the texts still pending when their speak call returned
    discarded,       \* dedup keys of the speak calls the cooldown discarded
    counts,          \* the person counts of the processed frames, in order
    lastFrame,       \* the last processed frame: the predictions, per tracked
                     \* detection its box, its history key and whether it raised the fall
                     \* alert, and the candidate alerts the frame raised, in order
    pushes,          \* history key -> number of positions ever appended under it
    touched,         \* history key -> time of the last position appended under it
    submitted,       \* the candidate alerts handed to handleAlert, in order
    allAlerts,       \* every entry the alert log accepted, in order
    lastOp,          \* the operation that ran last
    lastCall         \* its arguments

voiceVars == << hasSynth, queue, isSpeakingRef, lastSpoken, voiceEnabled, isSpeaking,
                engine, lateCallbacks, closures, nAccepted, handed, dropped, acceptedAt,
                waited, discarded >>
alertVars == << alerts, toastAlert, submitted, allAlerts >>
frameVars == << statsRef, prevCountRef, personHistoryRef, prevBboxRef, stats, counts,
                sharedDetections, lastFrame, pushes, touched >>
loopVars == << modelLoaded, cameraActive, cameraStarting, videoReady, isRunning,
               detectingRef, animFrameRef, requests, inflight, nextId >>
vars == << voiceVars, alertVars, frameVars, loopVars, now, lastOp, lastCall >>

\* The messages and cooldowns the model submits.
\* "Fire!" and "FIRE" share the dedup key "fire"; the third has the key " fire".
Messages == { MsgFire, MsgFireCaps, MsgEmoji }
Cooldowns == { CooldownDanger, CooldownWarning }
ClockValues == { StartTime + o : o \in ClockOffsets }

(***************************************************************************)
(* useVoiceAlert.  The hook's operations are functions of the voice state  *)
(* v, a record of the variables they read and write.                       *)
(***************************************************************************)
Voice ==
    [ queue |-> queue, isSpeakingRef |-> isSpeakingRef, isSpeaking |-> isSpeaking,
      lastSpoken |-> lastSpoken, engine |-> engine, lateCallbacks |-> lateCallbacks,
      nAccepted |-> nAccepted, handed |-> handed, dropped |-> dropped,
      acceptedAt |-> acceptedAt, waited |-> waited, discarded |-> discarded ]

SetVoice(v) ==
    /\ queue' = v.queue
    /\ isSpeakingRef' = v.isSpeakingRef
    /\ isSpeaking' = v.isSpeaking
    /\ lastSpoken' = v.lastSpoken
    /\ engine' = v.engine
    /\ lateCallbacks' = v.lateCallbacks
    /\ nAccepted' = v.nAccepted
    /\ handed' = v.handed
    /\ dropped' = v.dropped
    /\ acceptedAt' = v.acceptedAt
    /\ waited' = v.waited
    /\ discarded' = v.discarded

\* The ordinals of the entries of a sequence of queue entries.
Ids(q) == { q[i].n : i \in 1..Len(q) }

\* speakNext taking the newest pending text (pop) instead of the oldest (shift).
speakNextPop(v) ==
    IF ~hasSynth \/ Len(v.queue) = 0 \/ v.isSpeakingRef
    THEN v
    ELSE [ v EXCEPT !.queue = SubSeq(v.queue, 1, Len(v.queue) - 1),
                    !.isSpeakingRef = TRUE,
                    !.isSpeaking = TRUE,
                    !.engine = Append(v.engine, v.queue[Len(v.queue)]),
                    !.handed = Append(v.handed, v.queue[Len(v.queue)].n) ]

\* speakNext: shift the head of the queue and hand it to the engine, unless
\* there is no engine, nothing is pending or an utterance is in progress.
speakNext(v) ==
    IF ~hasSynth \/ Len(v.queue) = 0 \/ v.isSpeakingRef
    THEN v
    ELSE [ v EXCEPT !.queue = Tail(v.queue),
                    !.isSpeakingRef = TRUE,
                    !.isSpeaking = TRUE,
                    !.engine = Append(v.engine, Head(v.queue)),
                    !.handed = Append(v.handed, Head(v.queue).n) ]

\* An onend handler that resets the state and does not advance the queue.
utteranceOnEndNoAdvance(v) ==
    [ v EXCEPT !.isSpeakingRef = FALSE, !.isSpeaking = FALSE ]

\* utterance.onend
utteranceOnEnd(v) ==
    speakNext([ v EXCEPT !.isSpeakingRef = FALSE, !.isSpeaking = FALSE ])

\* An onerror handler that resets the state and drops what is pending.
utteranceOnErrorDrop(v) ==
    [ v EXCEPT !.isSpeakingRef = FALSE, !.isSpeaking = FALSE, !.queue = << >> ]

\* utterance.onerror
utteranceOnError(v) ==
    speakNext([ v EXCEPT !.isSpeakingRef = FALSE, !.isSpeaking = FALSE ])

\* lastSpokenRef.current.get(key) || 0
LastTime(v, key) == IF key \in DOMAIN v.lastSpoken THEN v.lastSpoken[key] ELSE 0

\* speak recording the time of every attempt, discarded ones included.
speakStampAttempt(v, message, cooldownMs, enabledSeen) ==
    IF ~enabledSeen \/ ~hasSynth THEN v
    ELSE LET key == DedupKey(message)
             stamped == [ k \in DOMAIN v.lastSpoken \cup {key} |->
                            IF k = key THEN now ELSE v.lastSpoken[k] ]
         IN  IF now - LastTime(v, key) < cooldownMs
             THEN [ v EXCEPT !.lastSpoken = stamped ]
             ELSE speakNext(
                    [ v EXCEPT
                        !.lastSpoken = stamped,
                        !.queue = Append(v.queue, [ text |-> CleanText(message),
                                                    n |-> v.nAccepted + 1 ]),
                        !.nAccepted = v.nAccepted + 1,
                        !.acceptedAt = [ k \in DOMAIN v.acceptedAt \cup {key} |->
                                           IF k = key THEN now ELSE v.acceptedAt[k] ] ])

\* speak(message, cooldownMs), called through a callback that captured
\* voiceEnabled = enabledSeen.
speak(v, message, cooldownMs, enabledSeen) ==
    IF ~enabledSeen \/ ~hasSynth THEN v
    ELSE LET key == DedupKey(message)
         IN  IF now - LastTime(v, key) < cooldownMs THEN v
             ELSE speakNext(
                    [ v EXCEPT
                        !.lastSpoken = [ k \in DOMAIN v.lastSpoken \cup {key} |->
                                           IF k = key THEN now ELSE v.lastSpoken[k] ],
                        !.queue = Append(v.queue, [ text |-> CleanText(message),
                                                    n |-> v.nAccepted + 1 ]),
                        !.nAccepted = v.nAccepted + 1,
                        !.acceptedAt = [ k \in DOMAIN v.acceptedAt \cup {key} |->
                                           IF k = key THEN now ELSE v.acceptedAt[k] ] ])

\* A call of speak, with what it adds to the history: whether its text stayed
\* pending when it returned, or whether the cooldown discarded it.
speakCall(v, message, cooldownMs, enabledSeen) ==
    LET r == speak(v, message, cooldownMs, enabledSeen)
    IN  [ r EXCEPT
            !.waited = IF r.nAccepted > v.nAccepted /\ r.nAccepted \in Ids(r.queue)
                       THEN v.waited \cup { r.nAccepted } ELSE v.waited,
            !.discarded = IF enabledSeen /\ hasSynth /\ r.nAccepted = v.nAccepted
                          THEN v.discarded \cup { DedupKey(message) } ELSE v.discarded ]

\* cancelSpeech forgetting the acceptance timestamps too.
cancelSpeechForget(v, late) ==
    [ v EXCEPT !.engine = << >>,
               !.lateCallbacks = IF hasSynth THEN v.lateCallbacks \cup late
                                 ELSE v.lateCallbacks,
               !.dropped = v.dropped \cup Ids(v.queue),
               !.queue = << >>,
               !.lastSpoken = << >>,
               !.isSpeakingRef = FALSE,
               !.isSpeaking = FALSE ]

\* cancelSpeech stopping the engine and resetting the state, the queue kept.
cancelSpeechKeepQueue(v, late) ==
    [ v EXCEPT !.engine = << >>,
               !.lateCallbacks = IF hasSynth THEN v.lateCallbacks \cup late
                                 ELSE v.lateCallbacks,
               !.dropped = v.dropped \cup Ids(v.queue),
               !.isSpeakingRef = FALSE,
               !.isSpeaking = FALSE ]

\* cancelSpeech.  synth.cancel() removes every utterance from the engine; the
\* engine reports the removal of those in `late` by an event delivered later
\* (an "interrupted"/"canceled" error or an end event, depending on the browser)
\* and of the others not at all.
cancelSpeech(v, late) ==
    [ v EXCEPT !.engine = << >>,
               !.lateCallbacks = IF hasSynth THEN v.lateCallbacks \cup late
                                 ELSE v.lateCallbacks,
               !.dropped = v.dropped \cup Ids(v.queue),
               !.queue = << >>,
               !.isSpeakingRef = FALSE,
               !.isSpeaking = FALSE ]

\* toggleVoice cancelling in both directions.
toggleVoiceAlwaysCancel(v, prev, late) == cancelSpeech(v, late)

\* toggleVoice: setVoiceEnabled((prev) => { if (prev) cancelSpeech(); return !prev; })
toggleVoice(v, prev, late) == IF prev THEN cancelSpeech(v, late) ELSE v

NoCall == [ message |-> << >>, cooldownMs |-> 0, seen |-> FALSE, severity |-> "none" ]

(***************************************************************************)
(* WebcamDetector: the camera and the frame loop.  Their operations are    *)
(* functions of the loop state l, a record of the variables they read and  *)
(* write.  A detect callback is named by the voiceEnabled value that the   *)
(* onAlert it captured saw.                                                *)
(***************************************************************************)
Loop ==
    [ modelLoaded |-> modelLoaded, cameraActive |-> cameraActive,
      cameraStarting |-> cameraStarting, videoReady |-> videoReady,
      isRunning |-> isRunning, detectingRef |-> detectingRef,
      animFrameRef |-> animFrameRef, requests |-> requests, inflight |-> inflight,
      nextId |-> nextId ]

SetLoop(l) ==
    /\ modelLoaded' = l.modelLoaded
    /\ cameraActive' = l.cameraActive
    /\ cameraStarting' = l.cameraStarting
    /\ videoReady' = l.videoReady
    /\ isRunning' = l.isRunning
    /\ detectingRef' = l.detectingRef
    /\ animFrameRef' = l.animFrameRef
    /\ requests' = l.requests
    /\ inflight' = l.inflight
    /\ nextId' = l.nextId

\* animFrameRef.current = requestAnimationFrame(detect)
requestAnimationFrame(l, seen) ==
    [ l EXCEPT !.animFrameRef = l.nextId,
               !.requests = l.requests \cup { [ id |-> l.nextId, seen |-> seen ] },
               !.nextId = l.nextId + 1 ]

\* if (animFrameRef.current) cancelAnimationFrame(animFrameRef.current)
cancelAnimationFrame(l) ==
    IF l.animFrameRef # 0
    THEN [ l EXCEPT !.requests = { r \in l.requests : r.id # l.animFrameRef } ]
    ELSE l

\* if (detectingRef.current) animFrameRef.current = requestAnimationFrame(detect)
reschedule(l, seen) == IF l.detectingRef THEN requestAnimationFrame(l, seen) ELSE l

\* stopCamera
stopCamera(l) ==
    [ cancelAnimationFrame([ l EXCEPT !.detectingRef = FALSE ])
        EXCEPT !.animFrameRef = 0, !.videoReady = FALSE, !.cameraActive = FALSE ]

\* The effect "start/stop camera based on isRunning"; startCamera is left
\* awaiting the camera.
cameraEffect(l) ==
    IF l.isRunning /\ ~l.cameraActive /\ l.modelLoaded
    THEN [ l EXCEPT !.cameraStarting = TRUE ]
    ELSE IF ~l.isRunning /\ l.cameraActive THEN stopCamera(l)
    ELSE l

\* The cleanup of the detection-loop effect.
loopCleanup(l) == cancelAnimationFrame([ l EXCEPT !.detectingRef = FALSE ])

\* The body of the detection-loop effect, in a render that saw `active`
\* (modelLoaded && cameraActive && isRunning) and created the detect callback
\* `seen`.
loopEffect(l, active, seen) ==
    IF active
    THEN requestAnimationFrame([ l EXCEPT !.detectingRef = TRUE ], seen)
    ELSE [ cancelAnimationFrame([ l EXCEPT !.detectingRef = FALSE ])
             EXCEPT !.animFrameRef = 0 ]

\* The effects of a commit in which only detect changed.
loopEffectRerun(l, seen) ==
    loopEffect(loopCleanup(l), l.modelLoaded /\ l.cameraActive /\ l.isRunning, seen)

\* The effects of a commit in which modelLoaded, cameraActive or isRunning
\* changed: the cleanup, then the camera effect, then the loop effect.
Effects(l, seen) ==
    loopEffect(cameraEffect(loopCleanup(l)),
               l.modelLoaded /\ l.cameraActive /\ l.isRunning, seen)

\* A state change with the commits that follow it: stopCamera sets
\* cameraActive, which commits once more.
Commit(l, seen) ==
    LET once == Effects(l, seen)
    IN  IF once.cameraActive # l.cameraActive THEN Effects(once, seen) ELSE once

(***************************************************************************)
(* Actions of the voice queue.                                             *)
(***************************************************************************)
Speak ==
    /\ nAccepted < MaxAccepted
    /\ \E message \in Messages, cooldownMs \in Cooldowns, seen \in closures :
          /\ SetVoice(speakCall(Voice, message, cooldownMs, seen))
          /\ lastCall' = [ message |-> message, cooldownMs |-> cooldownMs, seen |-> seen,
                         severity |-> "none" ]
    /\ lastOp' = "speak"
    /\ UNCHANGED << hasSynth, voiceEnabled, closures, now, alertVars, frameVars, loopVars >>

CancelSpeech ==
    /\ \E late \in SUBSET Ids(engine) : SetVoice(cancelSpeech(Voice, late))
    /\ lastOp' = "cancelSpeech"
    /\ lastCall' = NoCall
    /\ UNCHANGED << hasSynth, voiceEnabled, closures, now, alertVars, frameVars, loopVars >>

\* The click on the voice button.  The re-render creates a new speak callback;
\* a detect invocation that is in flight keeps the callback it captured, and
\* may or may not call it later.
\* With speak, handleAlert and detect are created anew, and the detection-loop
\* effect, which depends on detect, runs again.
ToggleVoice ==
    /\ nextId <= MaxRequests
    /\ \E late \in SUBSET Ids(engine) : SetVoice(toggleVoice(Voice, voiceEnabled, late))
    /\ voiceEnabled' = ~voiceEnabled
    /\ closures' = closures \cup { ~voiceEnabled }
    /\ SetLoop(loopEffectRerun(Loop, ~voiceEnabled))
    /\ lastOp' = "toggleVoice"
    /\ lastCall' = NoCall
    /\ UNCHANGED << hasSynth, now, alertVars, frameVars >>

\* The engine finishes the utterance it is speaking and fires its end event.
EngineEnd ==
    /\ engine # << >>
    /\ SetVoice(utteranceOnEnd([ Voice EXCEPT !.engine = Tail(engine) ]))
    /\ lastOp' = "onend"
    /\ lastCall' = NoCall
    /\ UNCHANGED << hasSynth, voiceEnabled, closures, now, alertVars, frameVars, loopVars >>

\* The engine fails on the utterance it is speaking and fires its error event.
EngineError ==
    /\ engine # << >>
    /\ SetVoice(utteranceOnError([ Voice EXCEPT !.engine = Tail(engine) ]))
    /\ lastOp' = "onerror"
    /\ lastCall' = NoCall
    /\ UNCHANGED << hasSynth, voiceEnabled, closures, now, alertVars, frameVars, loopVars >>

\* The event of an utterance that cancel() removed is delivered.
LateEnd ==
    /\ \E u \in lateCallbacks :
          SetVoice(utteranceOnEnd([ Voice EXCEPT !.lateCallbacks = lateCallbacks \ {u} ]))
    /\ lastOp' = "late onend"
    /\ lastCall' = NoCall
    /\ UNCHANGED << hasSynth, voiceEnabled, closures, now, alertVars, frameVars, loopVars >>

LateError ==
    /\ \E u \in lateCallbacks :
          SetVoice(utteranceOnError([ Voice EXCEPT !.lateCallbacks = lateCallbacks \ {u} ]))
    /\ lastOp' = "late onerror"
    /\ lastCall' = NoCall
    /\ UNCHANGED << hasSynth, voiceEnabled, closures, now, alertVars, frameVars, loopVars >>

\* Time passes.
Tick ==
    /\ \E t \in ClockValues : t > now /\ now' = t
    /\ lastOp' = "tick"
    /\ lastCall' = NoCall
    /\ UNCHANGED << voiceVars, alertVars, frameVars, loopVars >>


(***************************************************************************)
(* Index: the alert dispatcher.                                            *)
(***************************************************************************)
Severities == { "info", "warning", "danger" }

\* severity === "danger" ? 6000 : severity === "warning" ? 10000 : 15000
CooldownOf(severity) ==
    IF severity = "danger" THEN CooldownDanger
    ELSE IF severity = "warning" THEN CooldownWarning
    ELSE CooldownInfo

\* new Date().toLocaleTimeString(): the time of day to the second.
LocaleTime(t) == (t \div 1000) % 86400

\* Array.prototype.slice(-n)
SliceLast(s, n) == IF Len(s) <= n THEN s ELSE SubSeq(s, Len(s) - n + 1, Len(s))

AlertEntryOf(message, severity) ==
    [ time |-> LocaleTime(now), message |-> message, severity |-> severity ]

\* toastAlert before any alert: null
NoAlert == [ time |-> 0, message |-> << >>, severity |-> "none" ]

\* An updater that suppresses a repeat only when the severity repeats too.
appendAlertSameSeverity(prev, entry) ==
    IF /\ Len(prev) > 0
       /\ prev[Len(prev)].message = entry.message
       /\ prev[Len(prev)].severity = entry.severity
    THEN prev
    ELSE SliceLast(Append(prev, entry), AlertCap)

\* An updater that keeps the first 50 entries (slice(0, 50)).
appendAlertKeepOldest(prev, entry) ==
    IF Len(prev) > 0 /\ prev[Len(prev)].message = entry.message
    THEN prev
    ELSE Slice0(Append(prev, entry), AlertCap)

\* The updater of setAlerts in handleAlert.
appendAlert(prev, entry) ==
    IF Len(prev) > 0 /\ prev[Len(prev)].message = entry.message
    THEN prev
    ELSE SliceLast(Append(prev, entry), AlertCap)

\* The state handleAlert reads and writes.
Dispatch ==
    [ alerts |-> alerts, toastAlert |-> toastAlert, allAlerts |-> allAlerts,
      voice |-> Voice ]

SetDispatch(d) ==
    /\ alerts' = d.alerts
    /\ toastAlert' = d.toastAlert
    /\ allAlerts' = d.allAlerts
    /\ SetVoice(d.voice)

\* handleAlert(message, severity), called through a callback that captured a
\* speak callback with voiceEnabled = seen.
handleAlert(d, message, severity, seen) ==
    [ alerts |-> appendAlert(d.alerts, AlertEntryOf(message, severity)),
      toastAlert |-> AlertEntryOf(message, severity),
      allAlerts |-> IF Len(d.alerts) = 0 \/ d.alerts[Len(d.alerts)].message # message
                    THEN Append(d.allAlerts, AlertEntryOf(message, severity))
                    ELSE d.allAlerts,
      voice |-> speakCall(d.voice, message, CooldownOf(severity), seen) ]

HandleAlertCall(message, severity, seen) ==
    /\ SetDispatch(handleAlert(Dispatch, message, severity, seen))
    /\ lastOp' = "handleAlert"
    /\ lastCall' = [ message |-> message, cooldownMs |-> CooldownOf(severity),
                     seen |-> seen, severity |-> severity ]
    /\ UNCHANGED << hasSynth, voiceEnabled, closures, now, frameVars, loopVars >>

\* The candidate alerts the model submits to the dispatcher alone.
AlertMessages == { MsgFire, MsgEmoji }

\* Any candidate alert.
HandleAlert ==
    /\ Len(submitted) < MaxSubmitted
    /\ nAccepted < MaxAccepted
    /\ \E message \in AlertMessages, severity \in Severities, seen \in closures :
          /\ HandleAlertCall(message, severity, seen)
          /\ submitted' = Append(submitted, [ message |-> message, severity |-> severity ])

\* A burst of the alerts of the frame loop, each with its own severity.
HandleAlertBurst ==
    /\ Len(allAlerts) < MaxAlerts
    /\ \E c \in { [ message |-> MsgFall, severity |-> "danger" ],
                  [ message |-> MsgRush, severity |-> "warning" ] } :
          \E seen \in closures : HandleAlertCall(c.message, c.severity, seen)
    /\ UNCHANGED submitted


(***************************************************************************)
(* WebcamDetector.detect: one frame, from the model's predictions on.      *)
(* A prediction is [class, score, bbox]: the score in hundredths, the box  *)
(* << x, y, w, h >> in whole pixels.  A centre x + w / 2 is kept doubled,  *)
(* 2 * x + w, and a recorded position is << 2 * cx, 2 * cy, w, h >>.       *)
(***************************************************************************)
\* n || 1
OrOne(n) == IF n = 0 THEN 1 ELSE n
Min(a, b) == IF a < b THEN a ELSE b

\* canvas.width * canvas.height
FrameArea == FrameWidth * FrameHeight

ZeroStats ==
    [ currentCount |-> 0, totalIn |-> 0, totalOut |-> 0, peakCount |-> 0,
      detections |-> << >>, childCount |-> 0, adultCount |-> 0 ]

\* isRealPerson: not flat (h / w < 0.55), not huge (area > 70 % of the frame),
\* not tiny (min(w, h) < 25).
isRealPerson(bbox) ==
    LET w == bbox[3]
        h == bbox[4]
    IN  /\ ~(100 * h < 55 * OrOne(w))
        /\ ~(100 * (w * h) > 70 * OrOne(FrameArea))
        /\ ~(Min(w, h) < 25)

\* isChild: score < 0.60, area < 12 % of the frame, h / w > 0.85.
IsChild(p) ==
    /\ p.score < ChildScore
    /\ 100 * (p.bbox[3] * p.bbox[4]) < 12 * OrOne(FrameArea)
    /\ 100 * p.bbox[4] > 85 * OrOne(p.bbox[3])

\* A classification that keeps every person that passed the shape filter.
ClassifyKeepAll(predictions) ==
    LET IsRaw(p) == p.class = "person" /\ p.score > PersonScore
        IsReal(p) == isRealPerson(p.bbox)
        kept == SelectSeq(SelectSeq(predictions, IsRaw), IsReal)
    IN  [ i \in 1..Len(kept) |-> [ obj |-> kept[i], isChild |-> IsChild(kept[i]) ] ]

\* rawPeople, the shape filter and the classification: the surviving persons,
\* each with its isChild tag.
Classify(predictions) ==
    LET IsRaw(p) == p.class = "person" /\ p.score > PersonScore
        IsReal(p) == isRealPerson(p.bbox)
        IsKept(p) == ~(~IsChild(p) /\ p.score < AdultScore)
        kept == SelectSeq(SelectSeq(SelectSeq(predictions, IsRaw), IsReal), IsKept)
    IN  [ i \in 1..Len(kept) |-> [ obj |-> kept[i], isChild |-> IsChild(kept[i]) ] ]

\* The doubled centre of a box.
Center2(bbox) == << 2 * bbox[1] + bbox[3], 2 * bbox[2] + bbox[4] >>
\* The square of twice the distance of two centres.
Dist2(a, b) == (a[1] - b[1]) * (a[1] - b[1]) + (a[2] - b[2]) * (a[2] - b[2])

\* History keys: `person_${pi}` and `person_new_${now}_${ci}`; "" is no key.
NoKey == << "", 0, 0 >>
PersonKey(pi) == << "person_", pi, 0 >>
NewKey(t, ci) == << "person_new_", t, ci >>

\* A scan in which the last of equally near boxes wins (dist <= bestDist).
RECURSIVE ScanPrevLastWins(_, _, _, _, _, _)
ScanPrevLastWins(c2, prevBboxes, matched, pi, bestDist, bestKey) ==
    IF pi > Len(prevBboxes) THEN bestKey
    ELSE IF (pi - 1) \in matched
         THEN ScanPrevLastWins(c2, prevBboxes, matched, pi + 1, bestDist, bestKey)
         ELSE LET dist == Dist2(c2, Center2(prevBboxes[pi]))
              IN  IF (bestDist < 0 \/ dist <= bestDist)
                     /\ dist < (2 * MatchDist) * (2 * MatchDist)
                  THEN ScanPrevLastWins(c2, prevBboxes, matched, pi + 1, dist,
                                        PersonKey(pi - 1))
                  ELSE ScanPrevLastWins(c2, prevBboxes, matched, pi + 1, bestDist, bestKey)

\* The inner forEach over prevBboxes, from index pi (counted from 1 here, from
\* 0 in the key): the key of the nearest box closer than 150 px, the first of
\* equally near ones.  bestDist < 0 stands for Infinity.
RECURSIVE ScanPrev(_, _, _, _, _, _)
ScanPrev(c2, prevBboxes, matched, pi, bestDist, bestKey) ==
    IF pi > Len(prevBboxes) THEN bestKey
    ELSE IF (pi - 1) \in matched
         THEN ScanPrev(c2, prevBboxes, matched, pi + 1, bestDist, bestKey)
         ELSE LET dist == Dist2(c2, Center2(prevBboxes[pi]))
              IN  IF (bestDist < 0 \/ dist < bestDist)
                     /\ dist < (2 * MatchDist) * (2 * MatchDist)
                  THEN ScanPrev(c2, prevBboxes, matched, pi + 1, dist, PersonKey(pi - 1))
                  ELSE ScanPrev(c2, prevBboxes, matched, pi + 1, bestDist, bestKey)

\* p[3] / (p[2] || 1) of a recorded position, compared with 1.3 and with 0.9.
Upright(pos) == 10 * pos[4] > 13 * OrOne(pos[3])
Flattened(pos) == 10 * pos[4] < 9 * OrOne(pos[3])

\* A push that drops the new position, not the oldest, when the buffer is full.
pushPositionKeepOldest(positions, pos) ==
    IF Len(positions) + 1 > HistoryCap THEN positions ELSE Append(positions, pos)

\* entry.positions.push(pos); if (entry.positions.length > 30) entry.positions.shift()
pushPosition(positions, pos) ==
    IF Len(Append(positions, pos)) > HistoryCap
    THEN Tail(Append(positions, pos))
    ELSE Append(positions, pos)

\* A fall test that is content with five recorded positions.
fallDetectedAtFive(positions) ==
    /\ Len(positions) >= 5
    /\ Upright(SliceLast(positions, 5)[1])
    /\ Flattened(SliceLast(positions, 5)[Len(SliceLast(positions, 5))])

\* The fall test on the positions of an identity (lines 246-249): more than 5
\* positions, and of the last 5 the first upright and the last flattened.
fallDetected(positions) ==
    /\ Len(positions) > 5
    /\ Upright(SliceLast(positions, 5)[1])
    /\ Flattened(SliceLast(positions, 5)[Len(SliceLast(positions, 5))])

\* The body of currentBboxes.forEach for the box with index ci (from 0): the
\* history after it, the key it used and whether it raised the fall alert.
\* `matched` is the Set the code creates and never adds to.
TrackOne(history, bbox, ci, prevBboxes) ==
    LET matched == {}
        c2 == Center2(bbox)
        bestKey == ScanPrev(c2, prevBboxes, matched, 1, -1, NoKey)
        key == IF bestKey # NoKey THEN bestKey ELSE NewKey(now, ci)
        entry == IF key \in DOMAIN history THEN history[key]
                 ELSE [ positions |-> << >>, firstSeen |-> now ]
        positions == pushPosition(entry.positions, << c2[1], c2[2], bbox[3], bbox[4] >>)
    IN  [ history |-> [ k \in DOMAIN history \cup { key } |->
                          IF k = key THEN [ entry EXCEPT !.positions = positions ]
                          ELSE history[k] ],
          key |-> key,
          fall |-> fallDetected(positions) ]

\* currentBboxes.forEach from index ci (from 1 here): the history after it and,
\* per box, the key used and whether the fall alert was raised.
RECURSIVE TrackFrom(_, _, _, _, _, _)
TrackFrom(history, bboxes, ci, prevBboxes, keys, fell) ==
    IF ci > Len(bboxes)
    THEN [ history |-> history, keys |-> keys, fell |-> fell,
           falls |-> Cardinality({ i \in 1..Len(fell) : fell[i] }) ]
    ELSE LET one == TrackOne(history, bboxes[ci], ci - 1, prevBboxes)
         IN  TrackFrom(one.history, bboxes, ci + 1, prevBboxes, Append(keys, one.key),
                       Append(fell, one.fall))

\* A pair loop that visits every ordered pair (j from 0, not from i + 1).
AltercationPairsOrdered(bboxes) ==
    { pr \in (1..Len(bboxes)) \X (1..Len(bboxes)) :
        /\ pr[1] # pr[2]
        /\ 4 * Dist2(Center2(bboxes[pr[1]]), Center2(bboxes[pr[2]]))
             < (bboxes[pr[1]][3] + bboxes[pr[2]][3]) * (bboxes[pr[1]][3] + bboxes[pr[2]][3]) }

\* The pairs i < j of people whose centres are closer than half the mean of
\* their widths.
AltercationPairs(bboxes) ==
    { pr \in (1..Len(bboxes)) \X (1..Len(bboxes)) :
        /\ pr[1] < pr[2]
        /\ 4 * Dist2(Center2(bboxes[pr[1]]), Center2(bboxes[pr[2]]))
             < (bboxes[pr[1]][3] + bboxes[pr[2]][3]) * (bboxes[pr[1]][3] + bboxes[pr[2]][3]) }

\* A sweep that removes every identity older than 60 s, whatever it holds.
EvictStale(history) ==
    [ k \in { key \in DOMAIN history : ~(now - history[key].firstSeen > EvictAfter) } |->
        history[k] ]

\* The sweep over history.entries() at the end of the tracker.
Evict(history) ==
    [ k \in { key \in DOMAIN history :
                ~(/\ now - history[key].firstSeen > EvictAfter
                  /\ Len(history[key].positions) < 2) } |-> history[k] ]

AnimalClasses == { "dog", "cat", "bird", "horse" }
ClassText(class) ==
    IF class = "dog" THEN << 100, 111, 103 >>
    ELSE IF class = "cat" THEN << 99, 97, 116 >>
    ELSE IF class = "bird" THEN << 98, 105, 114, 100 >>
    ELSE << 104, 111, 114, 115, 101 >>
MsgAnimal(class) == AnimalPrefix \o ClassText(class)

\* An occupancy update that adds the whole count, not the step, to totalIn.
updateStatsWholeCount(st, prevCount, currentCount, childCount, people) ==
    [ currentCount |-> currentCount,
      totalIn |-> IF currentCount > prevCount THEN st.totalIn + currentCount
                  ELSE st.totalIn,
      totalOut |-> IF currentCount < prevCount /\ prevCount > 0
                   THEN st.totalOut + (prevCount - currentCount) ELSE st.totalOut,
      peakCount |-> IF currentCount > st.peakCount THEN currentCount ELSE st.peakCount,
      detections |-> people,
      childCount |-> childCount,
      adultCount |-> currentCount - childCount ]

\* An occupancy update that counts one departure for any downward step.
updateStatsOutByOne(st, prevCount, currentCount, childCount, people) ==
    [ currentCount |-> currentCount,
      totalIn |-> IF currentCount > prevCount
                  THEN st.totalIn + (currentCount - prevCount) ELSE st.totalIn,
      totalOut |-> IF currentCount < prevCount /\ prevCount > 0
                   THEN st.totalOut + 1 ELSE st.totalOut,
      peakCount |-> IF currentCount > st.peakCount THEN currentCount ELSE st.peakCount,
      detections |-> people,
      childCount |-> childCount,
      adultCount |-> currentCount - childCount ]

\* An occupancy update that starts the totals anew when the frame is empty.
updateStatsResetWhenEmpty(st, prevCount, currentCount, childCount, people) ==
    IF currentCount = 0
    THEN [ ZeroStats EXCEPT !.peakCount = st.peakCount ]
    ELSE [ currentCount |-> currentCount,
           totalIn |-> IF currentCount > prevCount
                       THEN st.totalIn + (currentCount - prevCount) ELSE st.totalIn,
           totalOut |-> IF currentCount < prevCount /\ prevCount > 0
                        THEN st.totalOut + (prevCount - currentCount) ELSE st.totalOut,
           peakCount |-> IF currentCount > st.peakCount THEN currentCount ELSE st.peakCount,
           detections |-> people,
           childCount |-> childCount,
           adultCount |-> currentCount - childCount ]

\* The occupancy update of one frame.
updateStats(st, prevCount, currentCount, childCount, people) ==
    LET totalIn == IF currentCount > prevCount
                   THEN st.totalIn + (currentCount - prevCount) ELSE st.totalIn
        totalOut == IF ~(currentCount > prevCount)
                       /\ currentCount < prevCount /\ prevCount > 0
                    THEN st.totalOut + (prevCount - currentCount) ELSE st.totalOut
    IN  [ currentCount |-> currentCount,
          totalIn |-> totalIn,
          totalOut |-> totalOut,
          peakCount |-> IF currentCount > st.peakCount THEN currentCount ELSE st.peakCount,
          detections |-> people,
          childCount |-> childCount,
          adultCount |-> currentCount - childCount ]

\* n copies of x.
Repeat(x, n) == [ i \in 1..n |-> x ]

\* The alerts of one frame with a rush test that a step of 3 satisfies (>=).
FrameAlertsRushAtThree(predictions, bboxes, falls, prevCount) ==
    LET IsAnimal(p) == p.class \in AnimalClasses /\ p.score > AnimalScore
        animals == SelectSeq(predictions, IsAnimal)
    IN  Repeat([ message |-> MsgFall, severity |-> "danger" ], falls)
        \o Repeat([ message |-> MsgAltercation, severity |-> "danger" ],
                  IF Len(bboxes) >= 2 THEN Cardinality(AltercationPairs(bboxes)) ELSE 0)
        \o (IF Len(bboxes) >= prevCount + RushStep
            THEN << [ message |-> MsgRush, severity |-> "warning" ] >> ELSE << >>)
        \o [ i \in 1..Len(animals) |->
               [ message |-> MsgAnimal(animals[i].class), severity |-> "warning" ] ]
        \o (IF Len(bboxes) > CrowdLimit
            THEN << [ message |-> MsgOvercrowd(Len(bboxes)), severity |-> "danger" ] >>
            ELSE << >>)

\* The alerts of one frame in the order detect raises them.
FrameAlerts(predictions, bboxes, falls, prevCount) ==
    LET IsAnimal(p) == p.class \in AnimalClasses /\ p.score > AnimalScore
        animals == SelectSeq(predictions, IsAnimal)
    IN  Repeat([ message |-> MsgFall, severity |-> "danger" ], falls)
        \o Repeat([ message |-> MsgAltercation, severity |-> "danger" ],
                  IF Len(bboxes) >= 2 THEN Cardinality(AltercationPairs(bboxes)) ELSE 0)
        \o (IF Len(bboxes) > prevCount + RushStep
            THEN << [ message |-> MsgRush, severity |-> "warning" ] >> ELSE << >>)
        \o [ i \in 1..Len(animals) |->
               [ message |-> MsgAnimal(animals[i].class), severity |-> "warning" ] ]
        \o (IF Len(bboxes) > CrowdLimit
            THEN << [ message |-> MsgOvercrowd(Len(bboxes)), severity |-> "danger" ] >>
            ELSE << >>)

\* onAlert called for each alert of a sequence, in order.
RECURSIVE DispatchAll(_, _, _)
DispatchAll(d, raised, seen) ==
    IF raised = << >> THEN d
    ELSE DispatchAll(handleAlert(d, Head(raised).message, Head(raised).severity, seen),
                     Tail(raised), seen)

\* detect, from the predictions of the model to the last alert, through the
\* onAlert callback it captured (voiceEnabled = seen).
DetectFrame(predictions, seen) ==
    LET classified == Classify(predictions)
        people == [ i \in 1..Len(classified) |-> classified[i].obj ]
        bboxes == [ i \in 1..Len(people) |-> people[i].bbox ]
        tracked == TrackFrom(personHistoryRef, bboxes, 1, prevBboxRef, << >>, << >>)
        currentCount == Len(people)
        childCount == Cardinality({ i \in 1..Len(classified) : classified[i].isChild })
        newStats == updateStats(statsRef, prevCountRef, currentCount, childCount, people)
        raised == FrameAlerts(predictions, bboxes, tracked.falls, prevCountRef)
    IN  /\ personHistoryRef' = Evict(tracked.history)
        /\ prevBboxRef' = bboxes
        /\ statsRef' = newStats
        /\ prevCountRef' = currentCount
        /\ stats' = newStats
        /\ SetDispatch(DispatchAll(Dispatch, raised, seen))
        /\ sharedDetections' = TRUE
        /\ counts' = Append(counts, currentCount)
        /\ lastFrame' = [ predictions |-> predictions, bboxes |-> bboxes,
                          keys |-> tracked.keys, fell |-> tracked.fell, raised |-> raised ]
        /\ pushes' = [ k \in DOMAIN pushes \cup { tracked.keys[i] : i \in 1..Len(bboxes) } |->
                         (IF k \in DOMAIN pushes THEN pushes[k] ELSE 0)
                         + Cardinality({ i \in 1..Len(bboxes) : tracked.keys[i] = k }) ]
        /\ touched' = [ k \in DOMAIN Evict(tracked.history) |->
                          IF k \in { tracked.keys[i] : i \in 1..Len(bboxes) } THEN now
                          ELSE touched[k] ]
        /\ lastOp' = "detect"
        /\ lastCall' = NoCall
        /\ UNCHANGED << hasSynth, voiceEnabled, closures, submitted >>

\* The predictions the model submits: two adults far apart, a child, a flat
\* shadow, a large low-score person and a dog.
AdultA == [ class |-> "person", score |-> 80, bbox |-> << 100, 100, 100, 250 >> ]
AdultB == [ class |-> "person", score |-> 70, bbox |-> << 400, 120, 90, 240 >> ]
ChildC == [ class |-> "person", score |-> 45, bbox |-> << 300, 250, 50, 80 >> ]
Shadow == [ class |-> "person", score |-> 90, bbox |-> << 50, 400, 300, 60 >> ]
LowAdult == [ class |-> "person", score |-> 45, bbox |-> << 200, 50, 150, 300 >> ]
Dog == [ class |-> "dog", score |-> 60, bbox |-> << 500, 300, 80, 60 >> ]

FrameChoices ==
    { << >>,
      << AdultA >>,
      << AdultA, ChildC >>,
      << AdultA, AdultB, ChildC >>,
      << Shadow, LowAdult >>,
      << Dog, Shadow, AdultB >> }

\* A person standing in the middle of the frame, and five detections around one
\* and the same centre.
One == [ class |-> "person", score |-> 80, bbox |-> << 270, 140, 100, 200 >> ]
HeapA == [ class |-> "person", score |-> 80, bbox |-> << 280, 160, 80, 160 >> ]
HeapB == [ class |-> "person", score |-> 75, bbox |-> << 275, 150, 90, 180 >> ]
HeapC == [ class |-> "person", score |-> 70, bbox |-> << 265, 130, 110, 220 >> ]
HeapD == [ class |-> "person", score |-> 65, bbox |-> << 260, 120, 120, 240 >> ]

CrowdChoices ==
    { << One >>,
      << HeapA, HeapB, One, HeapC, HeapD >> }

\* A person in the middle of the frame, upright (h / w = 1.4), at the edge of
\* fallen (0.9) and fallen (0.8), and a second fallen person 10 px to the right.
Tall == [ class |-> "person", score |-> 80, bbox |-> << 270, 170, 100, 140 >> ]
Mid == [ class |-> "person", score |-> 80, bbox |-> << 270, 195, 100, 90 >> ]
Low == [ class |-> "person", score |-> 80, bbox |-> << 270, 200, 100, 80 >> ]
LowB == [ class |-> "person", score |-> 80, bbox |-> << 280, 200, 100, 80 >> ]

FallChoices == { << Tall >>, << Mid >>, << Low >>, << Low, LowB >> }

\* Persons 100 px to the left and to the right of the one in the middle, and
\* 150 px and 149 px to its right.
Left100 == [ class |-> "person", score |-> 80, bbox |-> << 170, 140, 100, 200 >> ]
Right100 == [ class |-> "person", score |-> 80, bbox |-> << 370, 140, 100, 200 >> ]
Off150 == [ class |-> "person", score |-> 80, bbox |-> << 420, 140, 100, 200 >> ]
Off149 == [ class |-> "person", score |-> 80, bbox |-> << 419, 140, 100, 200 >> ]

MatchChoices ==
    { << >>,
      << One >>,
      << Left100, Right100 >>,
      << Off150 >>,
      << Off149, Left100 >> }

\* Persons around the one in the middle (width 100): 50 px and 49 px to its
\* right, a narrow one (width 60) 40 px to its right, and two far away.
Near50 == [ class |-> "person", score |-> 80, bbox |-> << 320, 140, 100, 200 >> ]
Near49 == [ class |-> "person", score |-> 80, bbox |-> << 319, 140, 100, 200 >> ]
Narrow == [ class |-> "person", score |-> 80, bbox |-> << 330, 140, 60, 200 >> ]
FarLeft == [ class |-> "person", score |-> 80, bbox |-> << 20, 140, 100, 200 >> ]
FarRight == [ class |-> "person", score |-> 80, bbox |-> << 520, 140, 100, 200 >> ]

\* Groups of 0, 1, 3, 4 and 5 persons.
SceneChoices ==
    { << >>,
      << One >>,
      << One, Near50, FarLeft >>,
      << One, Near50, Near49, FarLeft >>,
      << One, Narrow, Near50, FarLeft, FarRight >> }

\* Nobody, or the person in the middle.
EvictChoices == { << >>, << One >> }

\* The pauses between two frames: with the FrameStep that follows a frame, 60 s
\* to the millisecond and one millisecond more.
Pauses == { EvictAfter - FrameStep, EvictAfter - FrameStep + 1 }

\* Person detections of every shape with scores around the thresholds: a small
\* upright box, a tiny box and a flat box with one score, a large upright box
\* (over 12 % of the frame), a box at the edge of flat (h / w = 0.55) and a
\* box over 70 % of the frame with another.
ProbeScores == { 40, 41, 49, 50, 59, 60 }
ProbeOf(sc, bbox) == [ class |-> "person", score |-> sc, bbox |-> bbox ]
ProbeChoices ==
    { << ProbeOf(sc1, << 300, 250, 50, 80 >>), ProbeOf(sc2, << 100, 100, 150, 300 >>),
         ProbeOf(sc1, << 500, 100, 20, 40 >>), ProbeOf(sc2, << 400, 300, 100, 55 >>),
         ProbeOf(sc1, << 50, 400, 300, 60 >>), ProbeOf(sc2, << 10, 10, 600, 400 >>) >> :
        sc1 \in ProbeScores, sc2 \in ProbeScores }

\* The predictions of the frame loop: nobody, a dog and an adult, two adults.
LoopChoices == { << >>, << Dog, AdultA >>, << AdultA, AdultB >> }

\* One pass of detect with nothing else in between: up to `cap` frames with
\* predictions from `choices`, the next animation frame FrameStep ms later.
DetectOf(choices, cap) ==
    /\ Len(counts) < cap
    /\ \E predictions \in choices, seen \in closures : DetectFrame(predictions, seen)
    /\ now' = now + FrameStep
    /\ UNCHANGED loopVars

Detect == DetectOf(FrameChoices, MaxFrames)
DetectCrowd == DetectOf(CrowdChoices, MaxCrowdFrames)
DetectFall == DetectOf(FallChoices, MaxFallFrames)
DetectProbe == DetectOf(ProbeChoices, MaxProbeFrames)
DetectSnap == DetectOf(LoopChoices, MaxSnapFrames)
DetectMatch == DetectOf(MatchChoices, MaxMatchFrames)
DetectEvict == DetectOf(EvictChoices, MaxEvictFrames)
DetectScene == DetectOf(SceneChoices, MaxSceneFrames)

\* No frame is processed for a while (the video is paused or the tab hidden):
\* the next Date.now() of detect (line 217) is that much later.
Pause ==
    /\ now - StartTime < MaxPauses * EvictAfter
    /\ \E d \in Pauses : now' = now + d
    /\ lastOp' = "pause"
    /\ lastCall' = NoCall
    /\ UNCHANGED << voiceVars, alertVars, frameVars, loopVars >>

(***************************************************************************)
(* Actions of the camera and the frame loop.  The await of the model       *)
(* splits detect in two: the animation-frame callback up to the call of    *)
(* the model, and the rest once the model has answered.                    *)
(***************************************************************************)
\* cocoSsd.load resolves: setModelLoaded(true).
ModelLoaded ==
    /\ ~modelLoaded
    /\ SetLoop(Commit([ Loop EXCEPT !.modelLoaded = TRUE ], voiceEnabled))
    /\ lastOp' = "model loaded"
    /\ lastCall' = NoCall
    /\ UNCHANGED << voiceVars, alertVars, frameVars, now >>

\* startCamera gets the stream: setCameraActive(true), after the video began to
\* play or after the 3 s timeout without it.
CameraStarted ==
    /\ cameraStarting
    /\ nextId <= MaxRequests
    /\ \E ready \in BOOLEAN :
          SetLoop(IF cameraActive
                  THEN [ Loop EXCEPT !.cameraStarting = FALSE ]
                  ELSE Commit([ Loop EXCEPT !.cameraStarting = FALSE,
                                            !.videoReady = ready,
                                            !.cameraActive = TRUE ], voiceEnabled))
    /\ lastOp' = "camera started"
    /\ lastCall' = NoCall
    /\ UNCHANGED << voiceVars, alertVars, frameVars, now >>

\* The video begins to play.
VideoPlays ==
    /\ cameraActive
    /\ ~videoReady
    /\ videoReady' = TRUE
    /\ lastOp' = "video plays"
    /\ lastCall' = NoCall
    /\ UNCHANGED << voiceVars, alertVars, frameVars, now, modelLoaded, cameraActive,
                    cameraStarting, isRunning, detectingRef, animFrameRef, requests,
                    inflight, nextId >>

\* toggleCamera: the click on START / STOP.
ToggleCamera ==
    /\ SetLoop(Commit([ Loop EXCEPT !.isRunning = ~isRunning ], voiceEnabled))
    /\ lastOp' = IF isRunning THEN "stop" ELSE "start"
    /\ lastCall' = NoCall
    /\ UNCHANGED << voiceVars, alertVars, frameVars, now >>

\* detect when no frame can be read (lines 146-157).
detectSkip(l, seen) == reschedule(l, seen)

\* An animation-frame request fires and detect runs up to the await: it
\* returns if the video has no frame, and calls the model if it has.
AnimationFrame ==
    /\ \E r \in requests :
          LET l == [ Loop EXCEPT !.requests = requests \ { r } ]
          IN  IF ~modelLoaded \/ ~videoReady
              THEN /\ detectingRef => nextId <= MaxRequests
                   /\ SetLoop(detectSkip(l, r.seen))
                   /\ lastOp' = "frame skipped"
              ELSE /\ SetLoop([ l EXCEPT !.inflight = inflight \cup { r } ])
                   /\ lastOp' = "detect started"
    /\ now' = now + FrameStep
    /\ lastCall' = NoCall
    /\ UNCHANGED << voiceVars, alertVars, frameVars >>

\* A catch block that gives the frame loop up.
detectFailedNoRetry(l, seen) == l

\* The catch block of detect (lines 165-168).
detectFailed(l, seen) == reschedule(l, seen)

\* The model answers an invocation that awaits it: the rest of detect.
ModelResolve ==
    /\ Len(counts) < MaxLoopFrames
    /\ nextId <= MaxRequests
    /\ \E inv \in inflight, predictions \in LoopChoices :
          /\ DetectFrame(predictions, inv.seen)
          /\ SetLoop(reschedule([ Loop EXCEPT !.inflight = inflight \ { inv } ], inv.seen))
    /\ UNCHANGED now

\* The model fails on an invocation that awaits it.
ModelReject ==
    /\ nextId <= MaxRequests
    /\ \E inv \in inflight :
          SetLoop(detectFailed([ Loop EXCEPT !.inflight = inflight \ { inv } ], inv.seen))
    /\ lastOp' = "detect failed"
    /\ lastCall' = NoCall
    /\ UNCHANGED << voiceVars, alertVars, frameVars, now >>

\* One pass of detect in which the model fails, with nothing else in between.
DetectFails ==
    /\ now - StartTime < FrameStep * MaxSceneFrames
    /\ \E seen \in closures : SetLoop(detectFailed(Loop, seen))
    /\ now' = now + FrameStep
    /\ lastOp' = "detect failed"
    /\ lastCall' = NoCall
    /\ UNCHANGED << voiceVars, alertVars, frameVars >>

(***************************************************************************)
(* A consumer of the snapshot that onStatsUpdate received.                 *)
(***************************************************************************)
\* The consumer assigns to a field of the snapshot.
ConsumerAssign ==
    /\ \E f \in { "currentCount", "totalIn", "totalOut", "peakCount", "childCount",
                   "adultCount" } :
          /\ stats[f] # 0
          /\ stats' = [ stats EXCEPT ![f] = 0 ]
    /\ lastOp' = "consumer assigns"
    /\ lastCall' = NoCall
    /\ UNCHANGED << voiceVars, alertVars, loopVars, now, statsRef, prevCountRef,
                    personHistoryRef, prevBboxRef, counts, sharedDetections, lastFrame,
                    pushes, touched >>

\* The consumer assigns a new list to the detections field of the snapshot.
ConsumerReplace ==
    /\ stats.detections # << >>
    /\ stats' = [ stats EXCEPT !.detections = << >> ]
    /\ sharedDetections' = FALSE
    /\ lastOp' = "consumer replaces"
    /\ lastCall' = NoCall
    /\ UNCHANGED << voiceVars, alertVars, loopVars, now, statsRef, prevCountRef,
                    personHistoryRef, prevBboxRef, counts, lastFrame, pushes, touched >>

\* The consumer removes the last element of the detections list of the
\* snapshot in place (pop): the list is the array statsRef.current.detections
\* refers to, unless the consumer replaced it.
ConsumerPop ==
    /\ stats.detections # << >>
    /\ stats' = [ stats EXCEPT !.detections = SubSeq(@, 1, Len(@) - 1) ]
    /\ statsRef' = IF sharedDetections
                   THEN [ statsRef EXCEPT !.detections = SubSeq(@, 1, Len(@) - 1) ]
                   ELSE statsRef
    /\ lastOp' = "consumer pops"
    /\ lastCall' = NoCall
    /\ UNCHANGED << voiceVars, alertVars, loopVars, now, prevCountRef, personHistoryRef,
                    prevBboxRef, counts, sharedDetections, lastFrame, pushes, touched >>

Init ==
    /\ hasSynth \in BOOLEAN
    /\ queue = << >>
    /\ isSpeakingRef = FALSE
    /\ lastSpoken = << >>
    /\ voiceEnabled = TRUE
    /\ isSpeaking = FALSE
    /\ engine = << >>
    /\ lateCallbacks = {}
    /\ now = StartTime
    /\ closures = { TRUE }
    /\ nAccepted = 0
    /\ handed = << >>
    /\ dropped = {}
    /\ waited = {}
    /\ discarded = {}
    /\ acceptedAt = << >>
    /\ statsRef = ZeroStats
    /\ prevCountRef = 0
    /\ personHistoryRef = << >>
    /\ prevBboxRef = << >>
    /\ stats = ZeroStats
    /\ counts = << >>
    /\ sharedDetections = FALSE
    /\ lastFrame = [ predictions |-> << >>, bboxes |-> << >>, keys |-> << >>, fell |-> << >>,
                     raised |-> << >> ]
    /\ pushes = << >>
    /\ touched = << >>
    /\ modelLoaded = FALSE
    /\ cameraActive = FALSE
    /\ cameraStarting = FALSE
    /\ videoReady = FALSE
    /\ isRunning = TRUE
    /\ detectingRef = FALSE
    /\ animFrameRef = 0
    /\ requests = {}
    /\ inflight = {}
    /\ nextId = 1
    /\ alerts = << >>
    /\ toastAlert = NoAlert
    /\ submitted = << >>
    /\ allAlerts = << >>
    /\ lastOp = "init"
    /\ lastCall = NoCall

\* The voice queue under any calls of its operations and any engine events.
NextVoice ==
    \/ Speak
    \/ CancelSpeech
    \/ ToggleVoice
    \/ EngineEnd
    \/ EngineError
    \/ LateEnd
    \/ LateError
    \/ Tick

SpecVoice == Init /\ [][NextVoice]_vars

\* The voice queue with no cancelSpeech and no toggleVoice, and an engine that
\* reports on every utterance it was handed.
EngineReport == EngineEnd \/ EngineError

NextDrain ==
    \/ Speak
    \/ EngineEnd
    \/ EngineError
    \/ Tick

\* The dispatcher under any candidate alerts.
NextAlert ==
    \/ HandleAlert
    \/ EngineEnd
    \/ Tick

SpecAlert == Init /\ [][NextAlert]_vars

\* The dispatcher under a long burst of alerts.
NextBurst ==
    \/ HandleAlertBurst
    \/ EngineEnd

SpecBurst == Init /\ [][NextBurst]_vars

\* The frame pipeline with the dispatcher and the voice queue behind it.
NextFrames ==
    \/ Detect
    \/ EngineEnd

SpecFrames == Init /\ [][NextFrames]_vars

\* The tracker under a crowd.
NextCrowd ==
    \/ DetectCrowd

SpecCrowd == Init /\ [][NextCrowd]_vars

\* The tracker under a person who falls.
NextFall ==
    \/ DetectFall

SpecFall == Init /\ [][NextFall]_vars

\* The tracker under persons who move between frames.
NextMatch ==
    \/ DetectMatch

SpecMatch == Init /\ [][NextMatch]_vars

\* The tracker under frames that are minutes apart.
NextEvict ==
    \/ DetectEvict
    \/ Pause

SpecEvict == Init /\ [][NextEvict]_vars

\* The behaviour analysis under groups of persons, with frames on which the
\* model fails.
NextScene ==
    \/ DetectScene
    \/ DetectFails

SpecScene == Init /\ [][NextScene]_vars

\* The classifier under probe detections.
NextProbe ==
    \/ DetectProbe

SpecProbe == Init /\ [][NextProbe]_vars

\* The camera and the frame loop, with the dispatcher and the voice queue
\* behind them.
NextLoop ==
    \/ ModelLoaded
    \/ CameraStarted
    \/ VideoPlays
    \/ ToggleCamera
    \/ ToggleVoice
    \/ AnimationFrame
    \/ ModelResolve
    \/ ModelReject
    \/ EngineEnd

SpecLoop == Init /\ [][NextLoop]_vars

\* The frame pipeline with a consumer that writes to the snapshots it receives.
NextSnapshot ==
    \/ DetectSnap
    \/ ConsumerAssign
    \/ ConsumerReplace
    \/ ConsumerPop

SpecSnapshot == Init /\ [][NextSnapshot]_vars

SpecDrain == Init /\ [][NextDrain]_vars /\ WF_vars(EngineReport)

\* The whole program: the frame loop, the dispatcher and the voice queue
\* together.  The specifications above are its parts, each with the other
\* parts' calls into it left free.
Next ==
    \/ ModelLoaded
    \/ CameraStarted
    \/ VideoPlays
    \/ ToggleCamera
    \/ AnimationFrame
    \/ ModelResolve
    \/ ModelReject
    \/ HandleAlert
    \/ Speak
    \/ CancelSpeech
    \/ ToggleVoice
    \/ EngineEnd
    \/ EngineError
    \/ LateEnd
    \/ LateError
    \/ Tick

Spec == Init /\ [][Next]_vars

(***************************************************************************)
(* Properties of the voice queue.                                          *)
(***************************************************************************)
Range(s) == { s[i] : i \in 1..Len(s) }

\* C1: at most one utterance that was handed to the speech engine is still
\* with the engine (neither finished, failed nor removed by a cancel).
SingleFlight == Len(engine) <= 1

\* C2: the texts handed to the speech engine are handed over in the order in
\* which speak enqueued them.
FifoOrder ==
    \A i, j \in 1..Len(handed) : i < j => handed[i] < handed[j]
\* Two texts that were both enqueued while an utterance was in progress have
\* both been handed over.
FifoWitness ==
    \E i, j \in 1..Len(handed) :
        i < j /\ handed[i] \in waited /\ handed[j] \in waited

\* C3: a speak call that sees voice enabled is discarded, leaving the queue,
\* the engine and the acceptance timestamps as they were, exactly when a text
\* with the same dedup key was enqueued less than cooldownMs before; otherwise
\* it enqueues its cleaned text and stamps the key with the current time.
SpeakDiscarded ==
    UNCHANGED << queue, isSpeakingRef, isSpeaking, lastSpoken, engine, lateCallbacks,
                 nAccepted, handed, dropped, acceptedAt >>
SpeakAccepted(message) ==
    /\ nAccepted' = nAccepted + 1
    /\ lastSpoken' = [ k \in DOMAIN lastSpoken \cup { DedupKey(message) } |->
                         IF k = DedupKey(message) THEN now ELSE lastSpoken[k] ]
    /\ LET entry == [ text |-> CleanText(message), n |-> nAccepted + 1 ]
       IN  \/ queue' = Append(queue, entry) /\ engine' = engine
           \/ queue' = queue /\ queue = << >> /\ engine' = Append(engine, entry)
DedupCooldown ==
    [][ (lastOp' = "speak" /\ lastCall'.seen /\ hasSynth) =>
          LET key == DedupKey(lastCall'.message)
              recent == /\ key \in DOMAIN acceptedAt
                        /\ now - acceptedAt[key] < lastCall'.cooldownMs
          IN  IF recent THEN SpeakDiscarded ELSE SpeakAccepted(lastCall'.message) ]_vars
\* A text is enqueued again exactly cooldownMs after the acceptance of a text
\* with its key, an attempt in between having been discarded.
DedupWitness ==
    /\ lastOp = "speak"
    /\ nAccepted = 2
    /\ DOMAIN acceptedAt = { DedupKey(lastCall.message) }
    /\ DedupKey(lastCall.message) \in discarded
    /\ acceptedAt[DedupKey(lastCall.message)] = now
    /\ now = StartTime + lastCall.cooldownMs

\* C4: with an engine that reports on every utterance and without cancel or
\* toggle, every enqueued text is eventually handed to the engine, and a
\* pending queue eventually becomes empty with nothing speaking.
DrainsEventually ==
    /\ \A n \in 1..MaxAccepted : (n <= nAccepted) ~> (n \in Range(handed))
    /\ (queue # << >> \/ isSpeakingRef) ~> (queue = << >> /\ ~isSpeakingRef)
\* Two texts waited behind an utterance and the queue has drained.
DrainWitness ==
    /\ { 2, 3 } \subseteq waited
    /\ Len(handed) = 3
    /\ queue = << >>
    /\ ~isSpeakingRef
    /\ engine = << >>

\* C5: the error event of an utterance makes the transition its end event
\* makes: not speaking, then the head of the queue, if any, handed to the
\* engine; nothing pending is lost.
AfterCompletion(v) ==
    IF hasSynth /\ v.queue # << >>
    THEN [ v EXCEPT !.queue = Tail(v.queue),
                    !.isSpeakingRef = TRUE,
                    !.isSpeaking = TRUE,
                    !.engine = Append(v.engine, Head(v.queue)),
                    !.handed = Append(v.handed, Head(v.queue).n) ]
    ELSE [ v EXCEPT !.isSpeakingRef = FALSE, !.isSpeaking = FALSE ]
ErrorLikeCompletion ==
    [][ /\ lastOp' = "onerror" =>
            Voice' = AfterCompletion([ Voice EXCEPT !.engine = Tail(engine) ])
        /\ lastOp' = "onend" =>
            Voice' = AfterCompletion([ Voice EXCEPT !.engine = Tail(engine) ])
        /\ lastOp' \in { "onerror", "late onerror", "onend", "late onend" } =>
            Ids(queue) = Ids(queue') \cup (Range(handed') \ Range(handed)) ]_vars
\* The failure of the first utterance handed the second, pending, text over.
ErrorWitness ==
    /\ lastOp = "onerror"
    /\ handed = << 1, 2 >>
    /\ 2 \in waited
    /\ Len(engine) = 1
    /\ engine[1].n = 2
    /\ isSpeakingRef

\* C6: when cancelSpeech returns the queue is empty, nothing is speaking and
\* the engine holds nothing; no text it removed from the queue is ever handed
\* to the engine.
CancelClears ==
    /\ lastOp = "cancelSpeech" =>
          queue = << >> /\ ~isSpeakingRef /\ ~isSpeaking /\ engine = << >>
    /\ dropped \cap Range(handed) = {}
\* A cancel removed pending texts, and a text enqueued later was handed over.
CancelWitness ==
    /\ dropped # {}
    /\ \E n \in Range(handed) : \A d \in dropped : n > d

\* C7: toggleVoice with voice enabled cancels (queue empty, idle, engine
\* stopped) and disables; with voice disabled it enables and changes nothing
\* else of the voice queue.
ToggleEffect ==
    [][ lastOp' = "toggleVoice" =>
          IF voiceEnabled
          THEN /\ ~voiceEnabled'
               /\ queue' = << >> /\ ~isSpeakingRef' /\ ~isSpeaking' /\ engine' = << >>
               /\ UNCHANGED << lastSpoken, handed, nAccepted >>
          ELSE /\ voiceEnabled'
               /\ UNCHANGED << queue, isSpeakingRef, isSpeaking, lastSpoken, engine,
                               lateCallbacks, handed, nAccepted, dropped >> ]_vars
\* Voice was enabled while an utterance was in progress and a text pending.
ToggleWitness ==
    /\ lastOp = "toggleVoice"
    /\ voiceEnabled
    /\ isSpeakingRef
    /\ queue # << >>
    /\ DOMAIN lastSpoken # {}

\* C30: cancelSpeech, called directly or by toggleVoice, leaves the
\* acceptance timestamps as they were; no text it removed from the queue is
\* ever handed to the engine; and a speak call that sees voice enabled is
\* discarded when a text with its key was accepted less than cooldownMs
\* before, whether that text was spoken, is pending or was cancelled.
CancelKeepsStamps ==
    [][ /\ lastOp' \in { "cancelSpeech", "toggleVoice" } => lastSpoken' = lastSpoken
        /\ dropped' \cap Range(handed') = {}
        /\ (/\ lastOp' = "speak" /\ lastCall'.seen /\ hasSynth
            /\ DedupKey(lastCall'.message) \in DOMAIN acceptedAt
            /\ now - acceptedAt[DedupKey(lastCall'.message)] < lastCall'.cooldownMs)
              => /\ nAccepted' = nAccepted
                 /\ UNCHANGED << queue, engine, handed, lastSpoken >> ]_vars

\* The second accepted text was removed from the queue by a cancel and never
\* handed over, and a later speak call with its key, within the cooldown of
\* that acceptance, has been discarded.
CancelStampsWitness ==
    /\ lastOp = "speak"
    /\ lastCall.seen
    /\ hasSynth
    /\ nAccepted = 2
    /\ 2 \in dropped
    /\ 2 \notin Range(handed)
    /\ DedupKey(lastCall.message) \in discarded
    /\ now - acceptedAt[DedupKey(lastCall.message)] < lastCall.cooldownMs
    /\ \A k \in DOMAIN acceptedAt :
          k # DedupKey(lastCall.message) => acceptedAt[k] < acceptedAt[DedupKey(lastCall.message)]
    /\ lastSpoken = acceptedAt

(***************************************************************************)
(* Properties of the alert dispatcher.                                     *)
(***************************************************************************)
\* The candidates of s without those whose message repeats the message of the
\* candidate before them.
RECURSIVE Collapse(_)
Collapse(s) ==
    IF Len(s) <= 1 THEN s
    ELSE LET front == SubSeq(s, 1, Len(s) - 1)
         IN  IF s[Len(s)].message = s[Len(s) - 1].message
             THEN Collapse(front)
             ELSE Append(Collapse(front), s[Len(s)])

\* C8: a candidate alert enters the log exactly when the log is empty or the
\* last entry carries another message, whatever the severities: the log is
\* the sequence of candidates with every adjacent repeat of a message left
\* out, and no two adjacent entries carry the same message.
AdjacentSuppression ==
    /\ Len(alerts) = Len(Collapse(submitted))
    /\ \A i \in 1..Len(alerts) :
          /\ alerts[i].message = Collapse(submitted)[i].message
          /\ alerts[i].severity = Collapse(submitted)[i].severity
    /\ \A i \in 1..(Len(alerts) - 1) : alerts[i].message # alerts[i + 1].message
\* X, then X with another severity, then Y: the log is [X, Y].
SuppressionWitness ==
    /\ Len(submitted) = 3
    /\ submitted[1].message = MsgFire
    /\ submitted[2].message = MsgFire
    /\ submitted[2].severity # submitted[1].severity
    /\ submitted[3].message = MsgEmoji
    /\ Len(alerts) = 2
    /\ alerts[1].message = MsgFire
    /\ alerts[2].message = MsgEmoji

\* C9: the log never holds more than 50 entries; it is the last 50 accepted
\* entries in the order of their acceptance, the most recent last.
LogCap ==
    /\ Len(alerts) <= AlertCap
    /\ alerts = SliceLast(allAlerts, AlertCap)
\* 52 entries were accepted: the log holds the 3rd to the 52nd.
LogCapWitness ==
    /\ Len(allAlerts) = AlertCap + 2
    /\ Len(alerts) = AlertCap
    /\ alerts[1] = allAlerts[3]
    /\ alerts[AlertCap] = allAlerts[AlertCap + 2]

(***************************************************************************)
(* Properties of the occupancy counter.                                    *)
(***************************************************************************)
\* The sum of the upward steps of the counts cs, the count before them prev.
RECURSIVE StepsUp(_, _)
StepsUp(cs, prev) ==
    IF cs = << >> THEN 0
    ELSE (IF Head(cs) > prev THEN Head(cs) - prev ELSE 0) + StepsUp(Tail(cs), Head(cs))
\* The sum of the downward steps.
RECURSIVE StepsDown(_, _)
StepsDown(cs, prev) ==
    IF cs = << >> THEN 0
    ELSE (IF Head(cs) < prev THEN prev - Head(cs) ELSE 0) + StepsDown(Tail(cs), Head(cs))
\* The largest of the counts cs and m.
RECURSIVE MaxOf(_, _)
MaxOf(cs, m) ==
    IF cs = << >> THEN m ELSE MaxOf(Tail(cs), IF Head(cs) > m THEN Head(cs) ELSE m)

\* C10: after the frames with person counts c0..cn, totalIn is the sum of the
\* upward steps (from 0), totalOut the sum of the downward steps, peakCount
\* the largest count and currentCount the last one, in the counters and in
\* the published snapshot.
OccupancyReplay ==
    /\ statsRef.totalIn = StepsUp(counts, 0)
    /\ statsRef.totalOut = StepsDown(counts, 0)
    /\ statsRef.peakCount = MaxOf(counts, 0)
    /\ statsRef.currentCount = IF counts = << >> THEN 0 ELSE counts[Len(counts)]
    /\ stats.totalIn = statsRef.totalIn
    /\ stats.totalOut = statsRef.totalOut
    /\ stats.peakCount = statsRef.peakCount
    /\ stats.currentCount = statsRef.currentCount
\* The counts [0, 2, 1, 3, 0] give totalIn = 4, totalOut = 4, peakCount = 3.
ReplayWitness ==
    /\ counts = << 0, 2, 1, 3, 0 >>
    /\ statsRef.totalIn = 4
    /\ statsRef.totalOut = 4
    /\ statsRef.peakCount = 3
    /\ statsRef.currentCount = 0

(***************************************************************************)
(* Properties of the frame loop.                                           *)
(***************************************************************************)
\* The shape filter, the child test and the two ways a person detection is
\* counted, as the classifier's contract states them.
ShapeOk(b) ==
    /\ 100 * b[4] >= 55 * (IF b[3] = 0 THEN 1 ELSE b[3])
    /\ 100 * b[3] * b[4] <= 70 * FrameWidth * FrameHeight
    /\ b[3] >= 25
    /\ b[4] >= 25

ChildLike(p) ==
    /\ p.score < 60
    /\ 100 * p.bbox[3] * p.bbox[4] < 12 * FrameWidth * FrameHeight
    /\ 100 * p.bbox[4] > 85 * (IF p.bbox[3] = 0 THEN 1 ELSE p.bbox[3])

CountedChild(p) == p.class = "person" /\ p.score > 40 /\ ShapeOk(p.bbox) /\ ChildLike(p)
CountedAdult(p) ==
    p.class = "person" /\ p.score >= 50 /\ ShapeOk(p.bbox) /\ ~ChildLike(p)
Counted(p) == CountedChild(p) \/ CountedAdult(p)

\* C11: in every step of the camera and the frame loop (frames processed,
\* skipped or failed, stops and starts, voice toggles) totalIn, totalOut and
\* peakCount do not decrease, and after the step currentCount is the number
\* of persons counted in the last processed frame.
CountersKeep ==
    [][ /\ statsRef'.totalIn >= statsRef.totalIn
        /\ statsRef'.totalOut >= statsRef.totalOut
        /\ statsRef'.peakCount >= statsRef.peakCount
        /\ statsRef'.currentCount = Len(SelectSeq(lastFrame'.predictions, Counted)) ]_vars

\* Detection is started again after a stop, with counters that frames going
\* up and down had moved before the stop.
CountersKeepWitness ==
    /\ lastOp = "start"
    /\ statsRef.totalIn > 0
    /\ statsRef.totalOut > 0
    /\ statsRef.currentCount > 0
    /\ statsRef.peakCount > statsRef.currentCount

\* C18: a frame whose call of the model fails leaves the occupancy counters,
\* the previous count, the previous boxes, the identity histories, the last
\* snapshot, the alert log, the toast and the voice queue as they were, and
\* requests exactly one more animation frame, for the same detect callback,
\* if detection is still on, and none if it is off.
FailedFrameChangesNothing ==
    [][ lastOp' = "detect failed" =>
          /\ UNCHANGED << statsRef, prevCountRef, prevBboxRef, personHistoryRef, stats,
                          counts, alerts, toastAlert, allAlerts, voiceVars >>
          /\ \E inv \in inflight :
                /\ inflight' = inflight \ { inv }
                /\ IF detectingRef
                   THEN /\ requests' = requests \cup { [ id |-> animFrameRef', seen |-> inv.seen ] }
                        /\ Cardinality(requests') = Cardinality(requests) + 1
                   ELSE /\ requests' = requests
                        /\ animFrameRef' = animFrameRef ]_vars

\* The model has failed on a frame after another frame had found persons and
\* raised an alert, detection is on, and the next frame is requested.
FailedFrameWitness ==
    /\ lastOp = "detect failed"
    /\ detectingRef
    /\ statsRef.currentCount > 0
    /\ alerts # << >>
    /\ \E r \in requests : r.id = animFrameRef

\* C15: at any time at most one invocation of detect is awaiting the model or
\* requested for the next animation frame.
SingleLoop == Cardinality(requests) + Cardinality(inflight) <= 1

\* C16: while detection is stopped (isRunning is false) no animation-frame
\* request of detect is left pending, so no invocation of detect starts.
StopHaltsLoop ==
    /\ ~isRunning => requests = {}
    /\ ~isRunning => lastOp \notin { "detect started", "frame skipped" }

\* C17: the step that stops detection leaves the voice queue empty and idle,
\* with no utterance in the speech engine.
StopCancelsVoice ==
    [][ (isRunning /\ ~isRunning') =>
          (queue' = << >> /\ ~isSpeakingRef' /\ ~isSpeaking' /\ engine' = << >>) ]_vars

(***************************************************************************)
(* Properties of the tracker and the classifier.                           *)
(***************************************************************************)
\* The position the tracker records for a box: centre (doubled), width, height.
PositionOf(b) == << 2 * b[1] + b[3], 2 * b[2] + b[4], b[3], b[4] >>

\* The positions a frame appended under a key, up to its detection n, in order.
AddedUnder(frame, key, n) ==
    LET idx == SelectSeq([ i \in 1..n |-> i ], LAMBDA i : frame.keys[i] = key)
    IN  [ j \in 1..Len(idx) |-> PositionOf(frame.bboxes[idx[j]]) ]

\* The positions stored under a key, << >> if there is none.
StoredUnder(history, key) ==
    IF key \in DOMAIN history THEN history[key].positions ELSE << >>

\* C12: after every frame each identity of the history holds at most 30
\* positions, and they are the most recent 30 of those it held before
\* followed by those the frame appended to it, one or several.
RingBuffer ==
    [][ lastOp' = "detect" =>
          \A key \in DOMAIN personHistoryRef' :
             /\ Len(personHistoryRef'[key].positions) <= 30
             /\ personHistoryRef'[key].positions
                  = SliceLast(StoredUnder(personHistoryRef, key)
                                \o AddedUnder(lastFrame', key, Len(lastFrame'.keys)), 30) ]_vars

\* An identity is full after a frame that appended several detections to it,
\* the 31st position among them.
RingBufferWitness ==
    /\ lastOp = "detect"
    /\ \E key \in DOMAIN personHistoryRef :
          LET n == Len(AddedUnder(lastFrame, key, Len(lastFrame.keys)))
          IN  /\ n >= 2
              /\ Len(personHistoryRef[key].positions) = 30
              /\ pushes[key] > 30
              /\ pushes[key] - n <= 30
              /\ pushes[key] - n > 0

\* C20: within one frame no two detections are assigned to the same identity
\* of the previous frame.
ExclusiveAssignment ==
    \A i, j \in 1..Len(lastFrame.keys) :
       (i < j /\ lastFrame.keys[i] = lastFrame.keys[j]) => lastFrame.keys[i][1] # "person_"

\* The fall alerts a frame raised for an identity.
FallsFor(frame, key) ==
    Cardinality({ i \in 1..Len(frame.keys) : frame.keys[i] = key /\ frame.fell[i] })

ClassifierBounds ==
    lastOp = "detect" =>
      LET dets == statsRef.detections
          IsChildOne(p) == ChildLike(p)
          IsAdultOne(p) == ~ChildLike(p)
      IN  /\ \A i \in 1..Len(dets) :
                /\ dets[i].class = "person"
                /\ ShapeOk(dets[i].bbox)
                /\ ChildLike(dets[i]) => (dets[i].score >= 40 /\ dets[i].score < 60)
                /\ ~ChildLike(dets[i]) => dets[i].score >= 50
          /\ statsRef.childCount = Len(SelectSeq(dets, IsChildOne))
          /\ statsRef.adultCount = Len(SelectSeq(dets, IsAdultOne))
          /\ statsRef.currentCount = Len(dets)
          /\ \A j \in 1..Len(lastFrame.predictions) :
                LET p == lastFrame.predictions[j]
                IN  (\/ (~ChildLike(p) /\ p.score < 50)
                     \/ 100 * p.bbox[4] < 55 * p.bbox[3])
                      => p \notin Range(dets)

\* A frame counted a child at score 0.41 and dropped an adult-shaped person at
\* 0.49, after a frame that had counted adults.
ClassifierWitness ==
    /\ lastOp = "detect"
    /\ statsRef.childCount = 1
    /\ statsRef.adultCount = 0
    /\ statsRef.peakCount >= 3
    /\ \E i \in 1..Len(statsRef.detections) : statsRef.detections[i].score = 41
    /\ \E j \in 1..Len(lastFrame.predictions) :
          /\ lastFrame.predictions[j].score = 49
          /\ ShapeOk(lastFrame.predictions[j].bbox)
          /\ ~ChildLike(lastFrame.predictions[j])

(***************************************************************************)
(* Properties of the matching of detections to identities.                 *)
(***************************************************************************)
\* The square of twice the distance of the centres of two boxes.
CentreDistSq(a, b) ==
    ((2 * a[1] + a[3]) - (2 * b[1] + b[3])) * ((2 * a[1] + a[3]) - (2 * b[1] + b[3]))
    + ((2 * a[2] + a[4]) - (2 * b[2] + b[4])) * ((2 * a[2] + a[4]) - (2 * b[2] + b[4]))

\* The boxes of prev (by index, from 1) whose centre is closer than 150 px to
\* the centre of b.
Candidates(b, prev) ==
    { pi \in 1..Len(prev) : CentreDistSq(b, prev[pi]) < 4 * 150 * 150 }

\* The nearest candidate, the lowest index among equally near ones.
Nearest(b, prev) ==
    CHOOSE pi \in Candidates(b, prev) :
       \A q \in Candidates(b, prev) :
          \/ CentreDistSq(b, prev[pi]) < CentreDistSq(b, prev[q])
          \/ CentreDistSq(b, prev[pi]) = CentreDistSq(b, prev[q]) /\ pi <= q

\* C21: a detection of a frame that is matched to a detection of the frame
\* before, for which an identity was created there, has its position appended
\* under that very identity.
IdentityContinuity ==
    [][ lastOp' = "detect" =>
          \A i \in 1..Len(lastFrame'.bboxes) :
             LET b == lastFrame'.bboxes[i]
             IN  (/\ Candidates(b, lastFrame.bboxes) # {}
                  /\ lastFrame.keys[Nearest(b, lastFrame.bboxes)][1] = "person_new_")
                   => lastFrame'.keys[i] = lastFrame.keys[Nearest(b, lastFrame.bboxes)] ]_vars

\* C22: a detection with previous-frame boxes closer than 150 px is assigned
\* to the nearest of them, the lowest index among equally near ones (key
\* person_<index>); one with none, the previous frame empty or not, gets a new
\* identity that holds exactly its position after the frame.
MatchingRule ==
    [][ lastOp' = "detect" =>
          \A i \in 1..Len(lastFrame'.bboxes) :
             LET b == lastFrame'.bboxes[i]
                 key == lastFrame'.keys[i]
             IN  IF Candidates(b, lastFrame.bboxes) # {}
                 THEN key = << "person_", Nearest(b, lastFrame.bboxes) - 1, 0 >>
                 ELSE /\ key[1] = "person_new_"
                      /\ key \notin DOMAIN personHistoryRef
                      /\ StoredUnder(personHistoryRef', key) = << PositionOf(b) >> ]_vars

\* Three frames: two persons 100 px to the left and to the right of the
\* middle; one person in the middle, assigned to the first of the two equally
\* near boxes; one person exactly 150 px away from it, who got a new identity.
MatchingWitness ==
    /\ lastOp = "detect"
    /\ lastFrame.bboxes = << Off150.bbox >>
    /\ lastFrame.keys[1][1] = "person_new_"
    /\ StoredUnder(personHistoryRef, << "person_", 0, 0 >>) = << PositionOf(One.bbox) >>
    /\ Cardinality(DOMAIN personHistoryRef) = 4

\* C23: the sweep at the end of a frame removes an identity exactly when its
\* last position was appended more than 60 s before the frame and it holds
\* fewer than 2 positions; an identity with 2 or more positions stays.
EvictionRule ==
    [][ lastOp' = "detect" =>
          \A key \in DOMAIN personHistoryRef
                       \cup { lastFrame'.keys[i] : i \in 1..Len(lastFrame'.keys) } :
             LET held == SliceLast(StoredUnder(personHistoryRef, key)
                                     \o AddedUnder(lastFrame', key, Len(lastFrame'.keys)), 30)
                 updated == IF AddedUnder(lastFrame', key, Len(lastFrame'.keys)) # << >>
                            THEN now ELSE touched[key]
             IN  /\ key \notin DOMAIN personHistoryRef'
                      <=> (now - updated > 60000 /\ Len(held) < 2)
                 /\ Len(held) >= 2 => key \in DOMAIN personHistoryRef' ]_vars

\* A frame has removed an identity and has kept an identity with two
\* positions that was last updated more than 60 s before it.
EvictionWitness ==
    /\ lastOp = "detect"
    /\ DOMAIN pushes \ DOMAIN personHistoryRef # {}
    /\ \E k \in DOMAIN personHistoryRef :
          /\ Len(personHistoryRef[k].positions) >= 2
          /\ (now - FrameStep) - touched[k] > 60000

\* C24: in one frame no identity gets more than one fall alert.
FallOncePerIdentity ==
    \A key \in { lastFrame.keys[i] : i \in 1..Len(lastFrame.keys) } :
       FallsFor(lastFrame, key) <= 1

\* C29: after every frame totalIn - totalOut is currentCount, peakCount is at
\* least currentCount and at most totalIn, and childCount + adultCount is
\* currentCount, in the counters and in the published snapshot.
OccupancyBalance ==
    /\ statsRef.totalIn - statsRef.totalOut = statsRef.currentCount
    /\ statsRef.peakCount >= statsRef.currentCount
    /\ statsRef.peakCount <= statsRef.totalIn
    /\ statsRef.childCount + statsRef.adultCount = statsRef.currentCount
    /\ stats.totalIn - stats.totalOut = stats.currentCount
    /\ stats.peakCount >= stats.currentCount
    /\ stats.peakCount <= stats.totalIn
    /\ stats.childCount + stats.adultCount = stats.currentCount

\* After counts that went up, down by two and up again, a child and an adult
\* are present, fewer than the peak, and more persons came in than the peak.
BalanceWitness ==
    /\ lastOp = "detect"
    /\ statsRef.childCount = 1
    /\ statsRef.adultCount = 1
    /\ statsRef.peakCount = 3
    /\ statsRef.totalOut >= 2
    /\ statsRef.totalIn > statsRef.peakCount

(***************************************************************************)
(* Properties of the behaviour analysis.                                   *)
(***************************************************************************)
\* The candidates of a sequence that carry a message.
WithMessage(raised, message) ==
    SelectSeq(raised, LAMBDA a : a.message = message)

\* The unordered pairs of boxes whose centres are closer than half the mean of
\* their widths: 4 * dist < w1 + w2.
ClosePairs(bboxes) ==
    { pr \in SUBSET (1..Len(bboxes)) :
        /\ Cardinality(pr) = 2
        /\ \A i, j \in pr :
              i < j => 4 * CentreDistSq(bboxes[i], bboxes[j])
                         < (bboxes[i][3] + bboxes[j][3]) * (bboxes[i][3] + bboxes[j][3]) }

\* C25: the altercation candidates a frame raised are as many as the unordered
\* pairs of its persons whose centre distance is below half the mean of their
\* widths, each of severity danger, whatever the frames before it raised.
AltercationPerPair ==
    lastOp = "detect" =>
      /\ Len(WithMessage(lastFrame.raised, MsgAltercation))
           = Cardinality(ClosePairs(lastFrame.bboxes))
      /\ \A i \in 1..Len(lastFrame.raised) :
            lastFrame.raised[i].message = MsgAltercation
              => lastFrame.raised[i].severity = "danger"

\* The same four persons in two frames in a row: two of the six pairs qualify
\* (49 px and 1 px apart, not the pair 50 px apart), and the second frame
\* raised two candidates again.
AltercationWitness ==
    /\ lastOp = "detect"
    /\ counts = << 4, 4 >>
    /\ Len(WithMessage(lastFrame.raised, MsgAltercation)) = 2
    /\ Cardinality(ClosePairs(lastFrame.bboxes)) = 2

\* The last element of a sequence of counts, 0 if there is none.
LastCount(cs) == IF cs = << >> THEN 0 ELSE cs[Len(cs)]

\* C26: a frame raises the rush warning, once, exactly when its person count
\* exceeds by more than 3 the count of the frame processed before it (0 if
\* none): the count stored before the frame's occupancy update, which the
\* frame then replaces by its own; a frame on which the model fails raises
\* nothing and leaves the stored count.
RushRule ==
    [][ /\ lastOp' = "detect" =>
            /\ prevCountRef = LastCount(counts)
            /\ Len(WithMessage(lastFrame'.raised, MsgRush))
                 = (IF LastCount(counts') > LastCount(counts) + 3 THEN 1 ELSE 0)
            /\ \A i \in 1..Len(lastFrame'.raised) :
                  lastFrame'.raised[i].message = MsgRush
                    => lastFrame'.raised[i].severity = "warning"
            /\ prevCountRef' = LastCount(counts')
        /\ lastOp' = "detect failed" =>
            UNCHANGED << prevCountRef, counts, alerts, allAlerts, lastFrame >> ]_vars

\* One person, then a frame on which the model failed, then five persons: the
\* rush warning is raised (5 > 1 + 3).
RushWitness ==
    /\ lastOp = "detect"
    /\ counts = << 1, 5 >>
    /\ now = StartTime + 3 * FrameStep
    /\ Len(WithMessage(lastFrame.raised, MsgRush)) = 1

(***************************************************************************)
(* Properties of what the dispatcher forwards.                             *)
(***************************************************************************)
\* C27: a candidate that the dispatcher suppresses as a repeat of the last
\* log entry changes neither the toast nor the voice queue; one that it
\* accepts becomes the toast and is passed to speak with the cooldown of its
\* severity: 6000 ms for danger, 10000 ms for warning, 15000 ms for info.
ForwardsAccepted ==
    [][ lastOp' = "handleAlert" =>
          IF Len(alerts) > 0 /\ alerts[Len(alerts)].message = lastCall'.message
          THEN /\ alerts' = alerts
               /\ toastAlert' = toastAlert
               /\ UNCHANGED << queue, lastSpoken, engine, handed, nAccepted >>
          ELSE /\ toastAlert' = alerts'[Len(alerts')]
               /\ toastAlert'.message = lastCall'.message
               /\ lastCall'.cooldownMs
                    = (IF lastCall'.severity = "danger" THEN 6000
                       ELSE IF lastCall'.severity = "warning" THEN 10000 ELSE 15000) ]_vars

\* C28: a step that begins and ends with voice disabled hands no utterance
\* to the speech engine and changes neither the queue nor the acceptance
\* timestamps.
SilentWhileDisabled ==
    [][ (~voiceEnabled /\ ~voiceEnabled') => UNCHANGED << queue, lastSpoken, handed >> ]_vars

\* C31: a step that begins and ends with detection stopped publishes no
\* snapshot, raises no alert and changes neither the counters nor the
\* tracker.
QuietAfterStop ==
    [][ (~isRunning /\ ~isRunning') =>
          UNCHANGED << stats, statsRef, prevCountRef, prevBboxRef, personHistoryRef,
                       counts, alerts, toastAlert, allAlerts >> ]_vars

(***************************************************************************)
(* Properties of the snapshot.                                             *)
(***************************************************************************)
\* C19: no write of a consumer to the snapshot it received, to a field or to
\* the detections list, changes the statistics the pipeline owns.
SnapshotByValue ==
    [][ lastOp' \in { "consumer assigns", "consumer replaces", "consumer pops" }
          => UNCHANGED << statsRef, prevCountRef, prevBboxRef, personHistoryRef >> ]_vars

====
